---------------------------- MODULE Spec2Model ----------------------------
(***************************************************************************)
(* Expected-damage calculator (damage_calc.py) and its Streamlit driver    *)
(* (app.py).  Floating-point values are modelled as exact rationals        *)
(* [n |-> numerator, d |-> denominator] in lowest terms with d > 0;        *)
(* strings are sequences of one-character strings.                         *)
(***************************************************************************)
EXTENDS Integers, Sequences, FiniteSets, TLC

VARIABLES
    pc,        \* position of the run: which function is about to run / has run
    expr,      \* argument of expected_from_dice
    diceOut,   \* outcome of expected_from_dice: [ok, val]
    target,    \* argument of prob_success_on
    mode,      \* re-roll mode argument
    pbase,     \* base probability argument of the re-roll primitives
    psucc,     \* result of p_success_with_reroll
    pnat6,     \* result of p_nat6_with_reroll
    profile,   \* the WeaponProfile under evaluation
    result,    \* outcome of WeaponProfile.expected_damage: [ok, val]
    trace,     \* the intermediate quantities of that evaluation
    profiles,  \* the list handed to expected_damage_total / built by app.py
    idx,       \* loop index of the summation
    total      \* running total of the summation

vars == <<pc, expr, diceOut, target, mode, pbase, psucc, pnat6,
          profile, result, trace, profiles, idx, total>>

-----------------------------------------------------------------------------
(* Bounds of the model *)

MaxLen == 4        \* longest dice expression explored
MaxDen == 8        \* largest denominator of an arbitrary base probability
MaxAttacks == 4    \* largest number of attacks
MaxExplode == 2    \* largest explode_on_hit_6
MaxProfiles == 3   \* longest batch

-----------------------------------------------------------------------------
(* Exact rational arithmetic standing in for Python floats *)

RECURSIVE GCD(_, _)
GCD(a, b) == IF b = 0 THEN a ELSE GCD(b, a % b)

Abs(x) == IF x < 0 THEN -x ELSE x

Norm(n, d) == LET g == GCD(Abs(n), d) IN [n |-> n \div g, d |-> d \div g]

R(n, d) == Norm(n, d)

FromInt(i) == [n |-> i, d |-> 1]

Zero == FromInt(0)

One == FromInt(1)

Add(a, b) ==
    LET l == (a.d \div GCD(a.d, b.d)) * b.d
    IN  Norm(a.n * (l \div a.d) + b.n * (l \div b.d), l)

Neg(a) == [n |-> -a.n, d |-> a.d]

Sub(a, b) == Add(a, Neg(b))

Mul(a, b) ==
    LET g1 == GCD(Abs(a.n), b.d)
        g2 == GCD(Abs(b.n), a.d)
    IN  IF a.n = 0 \/ b.n = 0 THEN Zero
        ELSE [n |-> (a.n \div g1) * (b.n \div g2),
              d |-> (a.d \div g2) * (b.d \div g1)]

Leq(a, b) == Sub(b, a).n >= 0

Lt(a, b) == Sub(b, a).n > 0

RMax(a, b) == IF Leq(b, a) THEN a ELSE b

-----------------------------------------------------------------------------
(* Optional values (Python None) *)

None == [some |-> FALSE]

Some(v) == [some |-> TRUE, v |-> v]

-----------------------------------------------------------------------------
(* Helpers *)

Min2(a, b) == IF a < b THEN a ELSE b

Max2(a, b) == IF a > b THEN a ELSE b

clamp(n, lo, hi) == Max2(lo, Min2(hi, n))

prob_success_on(t) == R(7 - clamp(t, 2, 6), 6)

-----------------------------------------------------------------------------
(* Dice expression evaluator *)

Digits == {"0", "1", "2", "3", "4", "5", "6", "7", "8", "9"}

Signs == {"+", "-"}

DigitVal(c) ==
    CASE c = "0" -> 0 [] c = "1" -> 1 [] c = "2" -> 2 [] c = "3" -> 3
      [] c = "4" -> 4 [] c = "5" -> 5 [] c = "6" -> 6 [] c = "7" -> 7
      [] c = "8" -> 8 [] c = "9" -> 9

\* str.lower() on the characters of the model's alphabet
Lower(c) == IF c = "D" THEN "d" ELSE c

\* expr.strip().lower().replace(" ", "")
Normalize(e) ==
    LET low == [i \in 1..Len(e) |-> Lower(e[i])]
    IN  SelectSeq(low, LAMBDA c : c # " ")

AllDigits(s) == Len(s) > 0 /\ \A i \in 1..Len(s) : s[i] \in Digits

\* re.fullmatch(r"\d+(\.\d+)?", s)
MatchNumber(s) ==
    \/ AllDigits(s)
    \/ \E k \in 2..(Len(s) - 1) :
          /\ s[k] = "."
          /\ AllDigits(SubSeq(s, 1, k - 1))
          /\ AllDigits(SubSeq(s, k + 1, Len(s)))

RECURSIVE IntOf(_)
IntOf(s) ==
    IF Len(s) = 0 THEN 0
    ELSE 10 * IntOf(SubSeq(s, 1, Len(s) - 1)) + DigitVal(s[Len(s)])

RECURSIVE Pow10(_)
Pow10(k) == IF k = 0 THEN 1 ELSE 10 * Pow10(k - 1)

\* float(s) for a string that matches the number pattern
FloatOf(s) ==
    IF AllDigits(s) THEN FromInt(IntOf(s))
    ELSE LET k == CHOOSE j \in 2..(Len(s) - 1) : s[j] = "."
             frac == SubSeq(s, k + 1, Len(s))
         IN  Add(FromInt(IntOf(SubSeq(s, 1, k - 1))),
                 R(IntOf(frac), Pow10(Len(frac))))

\* re.sub(r"(^|[+\-])d", r"\g<1>1d", s)
RECURSIVE ImplicitOne(_, _)
ImplicitOne(s, i) ==
    IF i > Len(s) THEN <<>>
    ELSE IF s[i] = "d" /\ (i = 1 \/ s[i - 1] \in Signs)
         THEN <<"1", "d">> \o ImplicitOne(s, i + 1)
         ELSE <<s[i]>> \o ImplicitOne(s, i + 1)

\* last index of the run of non-sign characters starting at i
RECURSIVE RunEnd(_, _)
RunEnd(s, i) ==
    IF i < Len(s) /\ s[i + 1] \notin Signs THEN RunEnd(s, i + 1) ELSE i

\* re.findall(r"[+\-]?[^+\-]+", s), scanning from position i
RECURSIVE Tokens(_, _)
Tokens(s, i) ==
    IF i > Len(s) THEN <<>>
    ELSE IF s[i] \in Signs
         THEN IF i < Len(s) /\ s[i + 1] \notin Signs
              THEN <<SubSeq(s, i, RunEnd(s, i + 1))>>
                       \o Tokens(s, RunEnd(s, i + 1) + 1)
              ELSE Tokens(s, i + 1)
         ELSE <<SubSeq(s, i, RunEnd(s, i))>> \o Tokens(s, RunEnd(s, i) + 1)

\* re.fullmatch(r"(\d+)d(3|6)(?:\*(\d+))?", core)
MatchDice(core) ==
    \E k \in 2..(Len(core) - 1) :
       /\ core[k] = "d"
       /\ AllDigits(SubSeq(core, 1, k - 1))
       /\ core[k + 1] \in {"3", "6"}
       /\ \/ Len(core) = k + 1
          \/ /\ Len(core) >= k + 3
             /\ core[k + 2] = "*"
             /\ AllDigits(SubSeq(core, k + 3, Len(core)))

\* n * ((sides + 1) / 2.0) * mult for a core that matches the dice pattern
DiceValue(core) ==
    LET k == CHOOSE j \in 2..(Len(core) - 1) : core[j] = "d"
        n == IntOf(SubSeq(core, 1, k - 1))
        sides == DigitVal(core[k + 1])
        mult == IF Len(core) = k + 1 THEN 1
                ELSE IntOf(SubSeq(core, k + 3, Len(core)))
    IN  Mul(Mul(FromInt(n), R(sides + 1, 2)), FromInt(mult))

Raise == [ok |-> FALSE, val |-> Zero]

Return(v) == [ok |-> TRUE, val |-> v]

\* the body of the loop over tokens: the term's signed value, or the raise
TokenValue(tok) ==
    LET sign == IF tok[1] = "-" THEN -1 ELSE 1
        core == IF tok[1] \in Signs THEN Tail(tok) ELSE tok
    IN  IF MatchDice(core) THEN Return(Mul(FromInt(sign), DiceValue(core)))
        ELSE IF ~MatchNumber(core) THEN Raise
        ELSE Return(Mul(FromInt(sign), FloatOf(core)))

\* the loop over tokens from token i on, with the running total
RECURSIVE SumTokens(_, _, _)
SumTokens(toks, i, acc) ==
    IF i > Len(toks) THEN Return(acc)
    ELSE LET tv == TokenValue(toks[i])
         IN  IF ~tv.ok THEN Raise
             ELSE SumTokens(toks, i + 1, Add(acc, tv.val))

expected_from_dice(e) ==
    LET s == Normalize(e)
    IN  IF MatchNumber(s) THEN Return(FloatOf(s))
        ELSE SumTokens(Tokens(ImplicitOne(s, 1), 1), 1, Zero)

-----------------------------------------------------------------------------
(* Probability primitives *)

RerollModes == {"none", "ones", "failed"}

UnknownRerollMode == [n |-> 0, d |-> 0]

\* a "failed" policy that needs both rolls to succeed
p_success_must_repeat(p, m) ==
    IF m = "none" THEN p
    ELSE IF m = "failed" THEN Mul(p, p)
    ELSE IF m = "ones" THEN Add(p, Mul(R(1, 6), p))
    ELSE UnknownRerollMode

p_success_with_reroll(p, m) ==
    IF m = "none" THEN p
    ELSE IF m = "failed" THEN Add(p, Mul(Sub(One, p), p))
    ELSE IF m = "ones" THEN Add(p, Mul(R(1, 6), p))
    ELSE UnknownRerollMode

\* a "failed" policy that re-rolls every die
p_nat6_rerolls_all(success_p_no_mod, m) ==
    LET q6 == R(1, 6)
    IN  IF m = "none" THEN q6
        ELSE IF m = "ones" THEN Add(q6, Mul(R(1, 6), q6))
        ELSE IF m = "failed" THEN Add(q6, q6)
        ELSE UnknownRerollMode

p_nat6_with_reroll(success_p_no_mod, m) ==
    LET q6 == R(1, 6)
    IN  IF m = "none" THEN q6
        ELSE IF m = "ones" THEN Add(q6, Mul(R(1, 6), q6))
        ELSE IF m = "failed" THEN Add(q6, Mul(Sub(One, success_p_no_mod), q6))
        ELSE UnknownRerollMode

-----------------------------------------------------------------------------
(* Effects and WeaponProfile *)

MortalModes == {"instead", "in_addition"}

\* Effects() with every field at its default
DefaultEffects ==
    [reroll_hit |-> "none",
     reroll_wound |-> "none",
     explode_on_hit_6 |-> 0,
     autowound_on_hit_6 |-> FALSE,
     mortal_on_hit_6_value |-> None,
     mortal_on_hit_6_mode |-> "instead",
     continue_to_wound_after_mortal_on_hit |-> FALSE,
     mortal_on_wound_6_value |-> None,
     mortal_on_wound_6_mode |-> "instead",
     explode_applies_to_autowounds |-> TRUE]

\* WeaponProfile(name, attacks, hit, wound, rend, damage) with the defaults
\* of the remaining fields (the display name plays no part and is left out)
DefaultProfile(attacks, hit, wound, rend, damage) ==
    [attacks |-> attacks, hit |-> hit, wound |-> wound, rend |-> rend,
     damage |-> damage,
     hit_mod |-> 0, wound_mod |-> 0,
     target_save |-> 4, defender_save_mod |-> 0, target_ward |-> None,
     effects |-> DefaultEffects]

\* Python truth value of an Optional[int]
TruthyInt(o) == o.some /\ o.v # 0

\* Python truth value of an Optional[str]
TruthyStr(o) == o.some /\ Len(o.v) > 0

-----------------------------------------------------------------------------
(* WeaponProfile.expected_damage, stage by stage *)

hit_target(p) == clamp(p.hit - p.hit_mod, 2, 6)

wound_target(p) == clamp(p.wound - p.wound_mod, 2, 6)

save_target(p) == clamp(p.target_save - p.rend - p.defender_save_mod, 2, 6)

p_ward(p) ==
    IF TruthyInt(p.target_ward) THEN prob_success_on(p.target_ward.v) ELSE Zero

\* explosions taken off the hits instead of added
extra_hits_subtracted(e, p_hit_nat6) ==
    Mul(FromInt(0 - e.explode_on_hit_6), p_hit_nat6)

\* expected extra hits from explosions
extra_hits_per_attack(e, p_hit_nat6) ==
    Mul(FromInt(e.explode_on_hit_6), p_hit_nat6)

p_autowound_from_hit(e, p_hit_nat6) ==
    IF e.autowound_on_hit_6 THEN p_hit_nat6 ELSE Zero

\* auto-wounds taken off the wound rolls but never delivered to the save
HitPools_loses_auto(e, p_hit, p_hit_nat6) ==
    LET extra == Mul(FromInt(e.explode_on_hit_6), p_hit_nat6)
        auto == IF e.autowound_on_hit_6 THEN p_hit_nat6 ELSE Zero
        raw == Sub(p_hit, auto)
    IN  [need |-> Add(RMax(Zero, raw), extra), auto |-> Zero, raw |-> raw]

\* the two pools after explosions and auto-wounds; raw is the difference
\* the max(0.0, ...) guard is applied to
HitPools(e, p_hit, p_hit_nat6) ==
    LET extra == extra_hits_per_attack(e, p_hit_nat6)
        auto == p_autowound_from_hit(e, p_hit_nat6)
        raw == Sub(p_hit, auto)
        non_auto == RMax(Zero, raw)
    IN  [need |-> Add(non_auto, extra), auto |-> auto, raw |-> raw]

\* consumption that ignores the continuation flag
HitMortalAlwaysConsumes(e) == TruthyStr(e.mortal_on_hit_6_value)

\* does the hit-mortal proc take its die out of the downstream pools?
HitMortalConsumes(e) ==
    /\ TruthyStr(e.mortal_on_hit_6_value)
    /\ \/ e.mortal_on_hit_6_mode = "instead"
       \/ /\ e.mortal_on_hit_6_mode = "in_addition"
          /\ ~e.continue_to_wound_after_mortal_on_hit

\* which pool the consumed procs are taken from
ConsumeFromAuto(e) ==
    e.autowound_on_hit_6 /\ e.explode_applies_to_autowounds

\* the pools after the hit-mortal consumption
ConsumeOnHit(e, pools, p_hit_nat6) ==
    LET consume == p_hit_nat6
    IN  IF ~HitMortalConsumes(e) THEN pools
        ELSE IF ConsumeFromAuto(e)
             THEN [pools EXCEPT !.auto = RMax(Zero, Sub(pools.auto, consume))]
             ELSE [pools EXCEPT !.need = RMax(Zero, Sub(pools.need, consume))]

\* wound stage: successful wounds from rolls and wound-mortal procs; raw is
\* the difference the max(0.0, ...) guard is applied to
WoundStage(e, need, p_wound, p_wound_nat6) ==
    LET rolls == Mul(need, p_wound)
        procs == Mul(need, p_wound_nat6)
        raw == Sub(rolls, procs)
        instead == /\ TruthyStr(e.mortal_on_wound_6_value)
                   /\ e.mortal_on_wound_6_mode = "instead"
    IN  [wounds |-> IF instead THEN RMax(Zero, raw) ELSE rolls,
         procs |-> procs, raw |-> raw]

exp_normal_damage_per_attack(wounds_before_save, ps, pw, e_normal_dmg) ==
    Mul(Mul(Mul(wounds_before_save, Sub(One, ps)), Sub(One, pw)), e_normal_dmg)

exp_mortal_wounds_per_attack(hit_raw, wound_raw, pw) ==
    Mul(Add(hit_raw, wound_raw), Sub(One, pw))

\* every intermediate quantity of expected_damage for profile p, given the
\* three dice expectations
Stages(p, e_normal_dmg, e_mortal_on_hit, e_mortal_on_wound) ==
    LET e == p.effects
        p_hit_base == prob_success_on(hit_target(p))
        p_wound_base == prob_success_on(wound_target(p))
        ps == prob_success_on(save_target(p))
        pw == p_ward(p)
        p_hit == p_success_with_reroll(p_hit_base, e.reroll_hit)
        p_wound == p_success_with_reroll(p_wound_base, e.reroll_wound)
        p_hit_nat6 == p_nat6_with_reroll(p_hit_base, e.reroll_hit)
        p_wound_nat6 == p_nat6_with_reroll(p_wound_base, e.reroll_wound)
        pools == HitPools(e, p_hit, p_hit_nat6)
        left == ConsumeOnHit(e, pools, p_hit_nat6)
        ws == WoundStage(e, left.need, p_wound, p_wound_nat6)
        hit_mortals == Mul(p_hit_nat6, e_mortal_on_hit)
        wound_mortals == Mul(ws.procs, e_mortal_on_wound)
        before_save == Add(left.auto, ws.wounds)
        normal == exp_normal_damage_per_attack(before_save, ps, pw, e_normal_dmg)
        mortal == exp_mortal_wounds_per_attack(hit_mortals, wound_mortals, pw)
    IN  [p_hit_base |-> p_hit_base, p_wound_base |-> p_wound_base,
         p_save |-> ps, p_ward |-> pw,
         p_hit |-> p_hit, p_wound |-> p_wound,
         p_hit_nat6 |-> p_hit_nat6, p_wound_nat6 |-> p_wound_nat6,
         non_auto_raw |-> pools.raw, wound_raw |-> ws.raw,
         exp_hits_need_wound |-> left.need, exp_auto_wounds |-> left.auto,
         exp_wounds_before_save |-> before_save,
         e_normal_dmg |-> e_normal_dmg, e_mortal_on_hit |-> e_mortal_on_hit,
         normal |-> normal, mortal |-> mortal,
         total |-> Mul(FromInt(p.attacks), Add(normal, mortal))]

\* expected_from_dice(value) if value else 0.0
MortalValue(o) == IF TruthyStr(o) THEN expected_from_dice(o.v) ELSE Return(Zero)

\* one call of expected_damage: the return value (or the ValueError of a dice
\* expression) together with the intermediate quantities it went through
Call(p) ==
    LET dmg == expected_from_dice(p.damage)
        onhit == MortalValue(p.effects.mortal_on_hit_6_value)
        onwound == MortalValue(p.effects.mortal_on_wound_6_value)
        st == Stages(p, dmg.val, onhit.val, onwound.val)
    IN  IF dmg.ok /\ onhit.ok /\ onwound.ok
        THEN [result |-> Return(st.total), trace |-> st]
        ELSE [result |-> Raise, trace |-> <<>>]

expected_damage(p) == Call(p).result

-----------------------------------------------------------------------------
(* Input domains *)

\* characters a dice expression is typed from
Alphabet == {"1", "3", "6", "d", "D", "+", "-", "*", ".", " "}

Strings == UNION {[1..n -> Alphabet] : n \in 0..MaxLen}

\* targets handed to prob_success_on, in and out of the 2..6 range
TargetValues == (0 - 3)..10

\* base probabilities n/d in [0,1]
Probabilities ==
    {R(x[1], x[2]) : x \in {y \in (0..MaxDen) \X (1..MaxDen) : y[1] <= y[2]}}

\* re-roll modes handed to the primitives, one of them unknown
ModeValues == RerollModes \cup {"all"}

HitMortalValues == {None, Some(<<"1">>)}

WoundMortalValues == {None, Some(<<"D", "6">>)}

\* every effect combination the code tells apart: the mode of an unset
\* mortal value and the continuation flag outside "in_addition" are never
\* read, and stay at their defaults
EffectValues ==
    {e \in [reroll_hit : RerollModes,
            reroll_wound : RerollModes,
            explode_on_hit_6 : 0..MaxExplode,
            autowound_on_hit_6 : BOOLEAN,
            mortal_on_hit_6_value : HitMortalValues,
            mortal_on_hit_6_mode : MortalModes,
            continue_to_wound_after_mortal_on_hit : BOOLEAN,
            mortal_on_wound_6_value : WoundMortalValues,
            mortal_on_wound_6_mode : MortalModes,
            explode_applies_to_autowounds : BOOLEAN] :
        /\ ~e.mortal_on_hit_6_value.some =>
              /\ e.mortal_on_hit_6_mode = "instead"
              /\ ~e.continue_to_wound_after_mortal_on_hit
        /\ e.mortal_on_hit_6_mode = "instead" =>
              ~e.continue_to_wound_after_mortal_on_hit
        /\ ~e.mortal_on_wound_6_value.some =>
              e.mortal_on_wound_6_mode = "instead"}

\* attack counts, rend, damage and defender the effect combinations are
\* evaluated against: the form's defaults without and with a ward, a
\* profile with no attacks, and one whose damage expression is negative
Scenarios ==
    {[attacks |-> MaxAttacks, rend |-> 0 - 1, damage |-> <<"2">>,
      target_save |-> 4, target_ward |-> None],
     [attacks |-> MaxAttacks, rend |-> 0, damage |-> <<"D", "3">>,
      target_save |-> 3, target_ward |-> Some(6)],
     [attacks |-> 0, rend |-> 0 - 1, damage |-> <<"2">>,
      target_save |-> 4, target_ward |-> None],
     [attacks |-> 1, rend |-> 0 - 2, damage |-> <<"1", "-", "d", "3">>,
      target_save |-> 5, target_ward |-> Some(5)]}

\* profiles with every effect combination
EffectProfiles ==
    {[attacks |-> s.attacks, hit |-> h, wound |-> w, rend |-> s.rend,
      damage |-> s.damage, hit_mod |-> 0, wound_mod |-> 0,
      target_save |-> s.target_save, defender_save_mod |-> 0,
      target_ward |-> s.target_ward, effects |-> e] :
        s \in Scenarios, h \in 2..6, w \in {3, 6}, e \in EffectValues}

\* profiles with every effect at its default and targets, modifiers and
\* ward in and out of their documented ranges
TargetProfiles ==
    {[attacks |-> MaxAttacks, hit |-> h, wound |-> w, rend |-> r,
      damage |-> <<"D", "3">>, hit_mod |-> hm, wound_mod |-> wm,
      target_save |-> sv, defender_save_mod |-> sm,
      target_ward |-> wd, effects |-> e] :
        h \in 2..6, hm \in (0 - 1)..1, w \in {2, 4, 6}, wm \in (0 - 1)..1,
        sv \in {2, 4, 6}, r \in (0 - 1)..0, sm \in (0 - 1)..1,
        wd \in {None} \cup {Some(x) : x \in 0..7},
        e \in {DefaultEffects, [DefaultEffects EXCEPT !.reroll_hit = "failed"]}}

\* profiles a batch is drawn from; the last one carries a damage expression
\* the evaluator rejects
BatchProfiles ==
    {DefaultProfile(4, 3, 3, 0 - 1, <<"2">>),
     [DefaultProfile(4, 3, 3, 0 - 1, <<"2">>) EXCEPT !.target_ward = Some(6)],
     [DefaultProfile(2, 4, 3, 0, <<"D", "6">>) EXCEPT
         !.effects.reroll_hit = "ones", !.effects.explode_on_hit_6 = 1],
     [DefaultProfile(3, 2, 5, 0 - 2, <<"D", "3">>) EXCEPT
         !.effects.mortal_on_wound_6_value = Some(<<"1">>),
         !.effects.reroll_wound = "failed"],
     DefaultProfile(1, 3, 3, 0, <<"2", "d">>)}

Batches == UNION {[1..n -> BatchProfiles] : n \in 0..MaxProfiles}

-----------------------------------------------------------------------------
(* The runs *)

DiceIdle == expr = <<>> /\ diceOut = Raise

ProbIdle ==
    /\ target = 0 /\ mode = "none"
    /\ pbase = Zero /\ psucc = Zero /\ pnat6 = Zero

DamageIdle ==
    /\ profile = DefaultProfile(0, 2, 2, 0, <<"0">>)
    /\ result = Raise /\ trace = <<>>

BatchIdle == profiles = <<>> /\ idx = 0 /\ total = Zero

\* a call of WeaponProfile.expected_damage on an effect-laden profile
InitEffects ==
    /\ pc = "profile"
    /\ profile \in EffectProfiles
    /\ result = Raise /\ trace = <<>>
    /\ DiceIdle /\ ProbIdle /\ BatchIdle

Evaluate ==
    /\ pc = "profile"
    /\ LET c == Call(profile)
       IN  /\ result' = c.result
           /\ trace' = c.trace
           /\ pc' = IF c.result.ok THEN "evaluated" ELSE "raised"
    /\ UNCHANGED <<expr, diceOut, target, mode, pbase, psucc, pnat6,
                   profile, profiles, idx, total>>

NextEffects == Evaluate

SpecEffects == InitEffects /\ [][NextEffects]_vars

\* a call of WeaponProfile.expected_damage over the range of targets
InitTargets ==
    /\ pc = "profile"
    /\ profile \in TargetProfiles
    /\ result = Raise /\ trace = <<>>
    /\ DiceIdle /\ ProbIdle /\ BatchIdle

SpecTargets == InitTargets /\ [][NextEffects]_vars

\* a call of expected_from_dice
InitDice ==
    /\ pc = "dice"
    /\ expr \in Strings
    /\ diceOut = Raise
    /\ ProbIdle /\ DamageIdle /\ BatchIdle

EvalDice ==
    /\ pc = "dice"
    /\ diceOut' = expected_from_dice(expr)
    /\ pc' = IF expected_from_dice(expr).ok THEN "dice_returned" ELSE "dice_raised"
    /\ UNCHANGED <<expr, target, mode, pbase, psucc, pnat6,
                   profile, result, trace, profiles, idx, total>>

NextDice == EvalDice

SpecDice == InitDice /\ [][NextDice]_vars

\* a call of prob_success_on followed by the two re-roll primitives, or the
\* two re-roll primitives on an arbitrary base probability
InitProb ==
    /\ mode \in ModeValues
    /\ \/ pc = "target" /\ target \in TargetValues /\ pbase = Zero
       \/ pc = "prob" /\ target = 0 /\ pbase \in Probabilities
    /\ psucc = Zero /\ pnat6 = Zero
    /\ DiceIdle /\ DamageIdle /\ BatchIdle

ProbSuccessOn ==
    /\ pc = "target"
    /\ pbase' = prob_success_on(target)
    /\ pc' = "prob"
    /\ UNCHANGED <<expr, diceOut, target, mode, psucc, pnat6,
                   profile, result, trace, profiles, idx, total>>

Reroll ==
    /\ pc = "prob"
    /\ psucc' = p_success_with_reroll(pbase, mode)
    /\ pnat6' = p_nat6_with_reroll(pbase, mode)
    /\ pc' = IF mode \in RerollModes THEN "rerolled" ELSE "reroll_raised"
    /\ UNCHANGED <<expr, diceOut, target, mode, pbase,
                   profile, result, trace, profiles, idx, total>>

NextProb == ProbSuccessOn \/ Reroll

SpecProb == InitProb /\ [][NextProb]_vars

\* a call of expected_damage_total: sum() over the generator of the
\* profiles' expected damages, one profile per step
InitBatch ==
    /\ pc = "sum"
    /\ profiles \in Batches
    /\ idx = 0 /\ total = Zero
    /\ DiceIdle /\ ProbIdle /\ DamageIdle

\* a step that keeps the item and drops the running total
Overwrite(acc, ed) == ed

\* one step of sum(): the running total plus the next item
Accumulate(acc, ed) == Add(acc, ed)

\* expected_damage_total as a function of the list: the fold of sum() from
\* item i on, or the ValueError of the first profile that raises
RECURSIVE SumFrom(_, _, _)
SumFrom(ps, i, acc) ==
    IF i > Len(ps) THEN Return(acc)
    ELSE IF ~expected_damage(ps[i]).ok THEN Raise
    ELSE SumFrom(ps, i + 1, Accumulate(acc, expected_damage(ps[i]).val))

expected_damage_total(ps) == SumFrom(ps, 1, Zero)

SumStep ==
    /\ pc = "sum"
    /\ idx < Len(profiles)
    /\ expected_damage(profiles[idx + 1]).ok
    /\ total' = Accumulate(total, expected_damage(profiles[idx + 1]).val)
    /\ idx' = idx + 1
    /\ UNCHANGED <<pc, expr, diceOut, target, mode, pbase, psucc, pnat6,
                   profile, result, trace, profiles>>

SumRaise ==
    /\ pc = "sum"
    /\ idx < Len(profiles)
    /\ ~expected_damage(profiles[idx + 1]).ok
    /\ pc' = "sum_raised"
    /\ UNCHANGED <<expr, diceOut, target, mode, pbase, psucc, pnat6,
                   profile, result, trace, profiles, idx, total>>

SumReturn ==
    /\ pc = "sum"
    /\ idx = Len(profiles)
    /\ pc' = "sum_returned"
    /\ UNCHANGED <<expr, diceOut, target, mode, pbase, psucc, pnat6,
                   profile, result, trace, profiles, idx, total>>

NextBatch == SumStep \/ SumRaise \/ SumReturn

SpecBatch == InitBatch /\ [][NextBatch]_vars

\* any of the calls
Init == InitDice \/ InitProb \/ InitEffects \/ InitTargets \/ InitBatch

Next == NextDice \/ NextProb \/ NextEffects \/ NextBatch

Spec == Init /\ [][Next]_vars

-----------------------------------------------------------------------------
(* The grammar of dice expressions as the specification words it *)

\* N? d S with S in {3,6}, optionally followed by * M
GrammarDice(x) ==
    \E k \in 1..(Len(x) - 1) :
       /\ x[k] = "d"
       /\ k > 1 => AllDigits(SubSeq(x, 1, k - 1))
       /\ x[k + 1] \in {"3", "6"}
       /\ \/ Len(x) = k + 1
          \/ /\ Len(x) >= k + 3
             /\ x[k + 2] = "*"
             /\ AllDigits(SubSeq(x, k + 3, Len(x)))

GrammarNumber(x) ==
    \E k \in 1..Len(x) :
       /\ AllDigits(SubSeq(x, 1, k))
       /\ k < Len(x) => x[k + 1] = "." /\ AllDigits(SubSeq(x, k + 2, Len(x)))

GrammarTerm(x) == GrammarNumber(x) \/ GrammarDice(x)

\* the expectation of one term: the number itself, or N * (S + 1) / 2 * M
GrammarTermValue(x) ==
    IF GrammarNumber(x) THEN FloatOf(x)
    ELSE LET k == CHOOSE j \in 1..Len(x) : x[j] = "d"
             n == IF k = 1 THEN 1 ELSE IntOf(SubSeq(x, 1, k - 1))
             m == IF Len(x) = k + 1 THEN 1 ELSE IntOf(SubSeq(x, k + 3, Len(x)))
         IN  R(n * (DigitVal(x[k + 1]) + 1) * m, 2)

\* positions of the sign characters of s, and the term that follows one
SignsAt(s) == {i \in 1..Len(s) : s[i] \in Signs}

TermAfter(s, i) ==
    LET nxt == {j \in SignsAt(s) : j > i}
        stop == IF nxt = {} THEN Len(s) + 1
                ELSE CHOOSE j \in nxt : \A k \in nxt : j <= k
    IN  SubSeq(s, i + 1, stop - 1)

\* a signed sum of terms, the leading sign optional
GrammarSum(s) ==
    LET body == IF Len(s) > 0 /\ s[1] \notin Signs THEN <<"+">> \o s ELSE s
    IN  /\ Len(body) > 0
        /\ \A i \in SignsAt(body) : GrammarTerm(TermAfter(body, i))

InGrammar(e) == GrammarSum(Normalize(e))

RECURSIVE GrammarSumValue(_, _)
GrammarSumValue(body, i) ==
    IF i > Len(body) THEN Zero
    ELSE IF body[i] \in Signs
         THEN LET v == GrammarTermValue(TermAfter(body, i))
              IN  Add(IF body[i] = "-" THEN Neg(v) ELSE v,
                      GrammarSumValue(body, i + 1))
         ELSE GrammarSumValue(body, i + 1)

GrammarValue(e) ==
    LET s == Normalize(e)
        body == IF s[1] \notin Signs THEN <<"+">> \o s ELSE s
    IN  GrammarSumValue(body, 1)

DiceDone == pc \in {"dice_returned", "dice_raised"}

\* C6: expected_from_dice returns a value exactly for the strings of the
\* grammar (a bare number, or a signed sum of number, NdS and NdS*M terms)
\* and raises for every other string; the value returned is the signed sum
\* of the term expectations.
C6_AcceptsExactlyGrammar ==
    DiceDone =>
        /\ diceOut.ok <=> InGrammar(expr)
        /\ diceOut.ok /\ InGrammar(expr) => diceOut.val = GrammarValue(expr)

\* every string of the grammar is accepted with the value the grammar gives
DiceGrammarAccepted ==
    DiceDone /\ InGrammar(expr) =>
        diceOut.ok /\ diceOut.val = GrammarValue(expr)

-----------------------------------------------------------------------------
(* Re-roll primitives *)

\* C7 as claimed: for every base probability p in [0,1], both re-roll
\* policies give at least p and at most 1, "ones" gives p * 7/6 and
\* "failed" gives 2p - p^2.
C7_RerollWithinUnitInterval ==
    pc = "rerolled" =>
        /\ Leq(pbase, psucc)
        /\ Leq(psucc, One)
        /\ mode = "none" => psucc = pbase
        /\ mode = "ones" => psucc = Mul(pbase, R(7, 6))
        /\ mode = "failed" => psucc = Sub(Mul(FromInt(2), pbase), Mul(pbase, pbase))

\* C7 amended: the same, except that "ones" stays at or below 1 only for
\* p <= 6/7 (which covers every p that prob_success_on returns).
C7_RerollBounds ==
    pc = "rerolled" =>
        /\ Leq(pbase, psucc)
        /\ mode # "ones" \/ Leq(pbase, R(6, 7)) => Leq(psucc, One)
        /\ mode = "ones" /\ Lt(R(6, 7), pbase) => Lt(One, psucc)
        /\ mode = "none" => psucc = pbase
        /\ mode = "ones" => psucc = Mul(pbase, R(7, 6))
        /\ mode = "failed" => psucc = Sub(Mul(FromInt(2), pbase), Mul(pbase, pbase))

\* a "failed" re-roll of a 4+ has raised 1/2 to 3/4
C7_Witness ==
    /\ pc = "rerolled" /\ mode = "failed"
    /\ pbase = R(1, 2) /\ psucc = R(3, 4)

-----------------------------------------------------------------------------
(* expected_damage over the range of targets *)

Evaluated == pc = "evaluated"

EffectsDisabled(e) ==
    /\ e.reroll_hit = "none" /\ e.reroll_wound = "none"
    /\ e.explode_on_hit_6 = 0 /\ ~e.autowound_on_hit_6
    /\ ~e.mortal_on_hit_6_value.some /\ ~e.mortal_on_wound_6_value.some

\* the ward probability as the specification gives it
SpecWard(p) ==
    IF p.target_ward.some THEN prob_success_on(p.target_ward.v) ELSE Zero

\* attacks * p_hit * p_wound * (1 - p_save) * (1 - p_ward) * E[damage]
ClassicalFormula(p) ==
    Mul(Mul(Mul(Mul(Mul(FromInt(p.attacks),
                        prob_success_on(p.hit - p.hit_mod)),
                    prob_success_on(p.wound - p.wound_mod)),
                Sub(One, prob_success_on(p.target_save - p.rend
                                             - p.defender_save_mod))),
            Sub(One, SpecWard(p))),
        expected_from_dice(p.damage).val)

\* C1: with every effect disabled expected_damage equals the classical
\* formula attacks * p_hit * p_wound * (1 - p_save) * (1 - p_ward) * E[damage],
\* p_ward being prob_success_on(target_ward), or 0 when there is no ward.
C1_ClassicalFormula ==
    Evaluated /\ EffectsDisabled(profile.effects) =>
        result.val = ClassicalFormula(profile)

\* the same with the ward absent or non-zero
ClassicalFormulaNonZeroWard ==
    /\ Evaluated /\ EffectsDisabled(profile.effects)
    /\ ~profile.target_ward.some \/ profile.target_ward.v # 0
    => result.val = ClassicalFormula(profile)

Sixths == {R(k, 6) : k \in 1..5}

\* C5: every target is clamped into [2,6] before use: the hit, wound and
\* save probabilities lie in {1/6,...,5/6}, any integer ward gives
\* (7 - clamp(ward, 2, 6)) / 6, and only an absent ward gives 0.
C5_TargetsClamped ==
    Evaluated =>
        /\ trace.p_hit_base \in Sixths
        /\ trace.p_wound_base \in Sixths
        /\ trace.p_save \in Sixths
        /\ profile.target_ward.some =>
              trace.p_ward = R(7 - clamp(profile.target_ward.v, 2, 6), 6)
        /\ ~profile.target_ward.some => trace.p_ward = Zero

\* the same with the ward absent or non-zero
TargetsClampedNonZeroWard ==
    /\ Evaluated
    /\ ~profile.target_ward.some \/ profile.target_ward.v # 0
    => /\ trace.p_hit_base \in Sixths
       /\ trace.p_wound_base \in Sixths
       /\ trace.p_save \in Sixths
       /\ trace.p_ward = SpecWard(profile)

-----------------------------------------------------------------------------
(* expected_damage over the effect combinations *)

NonNeg(a) == Leq(Zero, a)

\* the damage and mortal expectations of the profile are all non-negative
NonNegativeDice(p) ==
    /\ NonNeg(expected_from_dice(p.damage).val)
    /\ NonNeg(MortalValue(p.effects.mortal_on_hit_6_value).val)
    /\ NonNeg(MortalValue(p.effects.mortal_on_wound_6_value).val)

AutowoundOff(p) == [p EXCEPT !.effects.autowound_on_hit_6 = FALSE]

\* C2 as claimed: for wound > hit, and every setting of the other fields
\* with non-negative damage and mortal expectations, autowound_on_hit_6
\* enabled gives at least the expected damage of the same profile with it
\* disabled.
C2_AutowoundNeverDecreases ==
    /\ Evaluated /\ profile.wound > profile.hit
    /\ profile.effects.autowound_on_hit_6
    /\ NonNegativeDice(profile)
    => Leq(expected_damage(AutowoundOff(profile)).val, result.val)

\* C2 amended: the same for profiles whose mortal_on_wound_6_value is unset.
C2_AutowoundNeverDecreasesNoWoundMortal ==
    /\ Evaluated /\ profile.wound > profile.hit
    /\ profile.effects.autowound_on_hit_6
    /\ NonNegativeDice(profile)
    /\ ~TruthyStr(profile.effects.mortal_on_wound_6_value)
    => Leq(expected_damage(AutowoundOff(profile)).val, result.val)

\* an auto-wounding profile with wound > hit and no wound mortals that does
\* strictly more damage than with auto-wounds off
C2_Witness ==
    /\ Evaluated /\ profile.wound > profile.hit
    /\ profile.effects.autowound_on_hit_6
    /\ NonNegativeDice(profile)
    /\ ~TruthyStr(profile.effects.mortal_on_wound_6_value)
    /\ Lt(expected_damage(AutowoundOff(profile)).val, result.val)

WithExplode(p, n) == [p EXCEPT !.effects.explode_on_hit_6 = n]

\* C3 as claimed: all else fixed, raising explode_on_hit_6 from N to any
\* N' > N strictly increases expected_damage.
C3_ExplodeStrictlyIncreases ==
    Evaluated =>
        \A n \in (profile.effects.explode_on_hit_6 + 1)..MaxExplode :
            Lt(result.val, expected_damage(WithExplode(profile, n)).val)

\* C3 amended: all else fixed, with non-negative attacks, damage and mortal
\* expectations, raising explode_on_hit_6 from N to any N' > N never
\* decreases expected_damage.
C3_ExplodeNeverDecreases ==
    Evaluated /\ profile.attacks >= 0 /\ NonNegativeDice(profile) =>
        \A n \in (profile.effects.explode_on_hit_6 + 1)..MaxExplode :
            Leq(result.val, expected_damage(WithExplode(profile, n)).val)

\* a profile without explosions that does strictly less damage than the
\* same profile with the largest explosion count
C3_Witness ==
    /\ Evaluated /\ profile.attacks > 0 /\ NonNegativeDice(profile)
    /\ profile.effects.explode_on_hit_6 = 0
    /\ Lt(result.val, expected_damage(WithExplode(profile, MaxExplode)).val)

\* C4: with a hit-mortal value in mode "instead" and no explosions the
\* natural-6 hit dice yield neither an auto-wound nor a wound roll: the
\* wounds reaching the save stage, before any wound-mortal adjustment, are
\* (p_hit - p_hit_nat6) * p_wound whatever autowound_on_hit_6 and
\* explode_applies_to_autowounds are.
C4_InsteadReplacesNaturalSixes ==
    /\ Evaluated
    /\ TruthyStr(profile.effects.mortal_on_hit_6_value)
    /\ profile.effects.mortal_on_hit_6_mode = "instead"
    /\ profile.effects.explode_on_hit_6 = 0
    => Add(trace.exp_auto_wounds,
           Mul(trace.exp_hits_need_wound, trace.p_wound))
         = Mul(Sub(trace.p_hit, trace.p_hit_nat6), trace.p_wound)

\* the same whenever the consumption is drawn from the pool the natural 6s
\* actually went to
InsteadReplacesUnlessSplit ==
    /\ Evaluated
    /\ TruthyStr(profile.effects.mortal_on_hit_6_value)
    /\ profile.effects.mortal_on_hit_6_mode = "instead"
    /\ profile.effects.explode_on_hit_6 = 0
    /\ profile.effects.autowound_on_hit_6 =>
          profile.effects.explode_applies_to_autowounds
    => Add(trace.exp_auto_wounds,
           Mul(trace.exp_hits_need_wound, trace.p_wound))
         = Mul(Sub(trace.p_hit, trace.p_hit_nat6), trace.p_wound)

HitMortalParallel(p) ==
    /\ TruthyStr(p.effects.mortal_on_hit_6_value)
    /\ p.effects.mortal_on_hit_6_mode = "in_addition"
    /\ p.effects.continue_to_wound_after_mortal_on_hit

NoHitMortal(p) == [p EXCEPT !.effects.mortal_on_hit_6_value = None]

\* attacks * p_hit_nat6 * E[value] * (1 - p_ward)
HitMortalIncrement(p) ==
    Mul(Mul(Mul(FromInt(p.attacks),
                p_nat6_with_reroll(prob_success_on(p.hit - p.hit_mod),
                                   p.effects.reroll_hit)),
            expected_from_dice(p.effects.mortal_on_hit_6_value.v).val),
        Sub(One, p_ward(p)))

\* the same weapon against another save
OtherSave(p) ==
    [p EXCEPT !.target_save = 6, !.rend = 0 - 3, !.defender_save_mod = 1]

\* C8: with a hit-mortal value in mode "in_addition" and continuation on,
\* expected_damage is that of the same profile without the hit-mortal value
\* plus attacks * p_hit_nat6 * E[value] * (1 - p_ward), and that increment
\* is the same against another save, rend and save modifier.
C8_ParallelHitMortalsOnlyAdd ==
    Evaluated /\ HitMortalParallel(profile) =>
        /\ result.val = Add(expected_damage(NoHitMortal(profile)).val,
                            HitMortalIncrement(profile))
        /\ expected_damage(OtherSave(profile)).val
             = Add(expected_damage(NoHitMortal(OtherSave(profile))).val,
                   HitMortalIncrement(profile))

\* a warded profile whose parallel hit mortals add a positive increment
C8_Witness ==
    /\ Evaluated /\ HitMortalParallel(profile)
    /\ profile.target_ward.some /\ profile.attacks > 0
    /\ profile.effects.autowound_on_hit_6
    /\ Lt(expected_damage(NoHitMortal(profile)).val, result.val)

\* C10: for every target and re-roll mode the natural-6 probability is at
\* most the success probability, so neither the max(0, ...) guard on the
\* non-auto-wound hits nor the one on the wound-mortal "instead"
\* subtraction is ever handed a negative value.
C10_GuardsNeverClamp ==
    Evaluated =>
        /\ Leq(trace.p_hit_nat6, trace.p_hit)
        /\ Leq(trace.p_wound_nat6, trace.p_wound)
        /\ NonNeg(trace.non_auto_raw)
        /\ NonNeg(trace.wound_raw)

\* a 6+ to hit with auto-wounds: every successful hit is a natural 6 and
\* the guard is handed exactly zero
C10_Witness ==
    /\ Evaluated
    /\ profile.effects.autowound_on_hit_6
    /\ TruthyStr(profile.effects.mortal_on_wound_6_value)
    /\ profile.effects.mortal_on_wound_6_mode = "instead"
    /\ profile.hit = 6 /\ profile.effects.reroll_hit = "failed"
    /\ trace.p_hit_nat6 = trace.p_hit
    /\ trace.non_auto_raw = Zero

-----------------------------------------------------------------------------
(* expected_damage_total *)

\* the sum of the profiles' expected damages, last profile first
RECURSIVE SumOfEach(_)
SumOfEach(ps) ==
    IF Len(ps) = 0 THEN Zero
    ELSE Add(expected_damage(ps[Len(ps)]).val,
             SumOfEach(SubSeq(ps, 1, Len(ps) - 1)))

Reordered(ps, f) == [i \in 1..Len(ps) |-> ps[f[i]]]

\* C9: expected_damage_total over a sequence equals the sum of each
\* profile's expected_damage: 0 for the empty sequence, e(p1) + e(p2) for
\* two profiles, and the same for every permutation of the sequence.
C9_BatchIsSum ==
    pc = "sum_returned" =>
        /\ total = SumOfEach(profiles)
        /\ total = expected_damage_total(profiles).val
        /\ Len(profiles) = 0 => total = Zero
        /\ Len(profiles) = 2 =>
              total = Add(expected_damage(profiles[1]).val,
                          expected_damage(profiles[2]).val)
        /\ \A f \in Permutations(1..Len(profiles)) :
              expected_damage_total(Reordered(profiles, f)).val = total

\* a batch of distinct profiles has been summed to a positive total
C9_Witness ==
    /\ pc = "sum_returned"
    /\ Len(profiles) >= 2
    /\ profiles[1] # profiles[2]
    /\ Lt(expected_damage(profiles[1]).val, total)
    /\ Lt(expected_damage(profiles[2]).val, total)

=============================================================================
